---- MODULE Spec2Model ----
(***************************************************************************)
(* PasteHTML (src/__init__.py): the markup filter NonFormatTagCleaner, the *)
(* media helpers downloadMedia / SaveImageToMedia, cleanTag and its caller *)
(* onHtmlCopy.  Spec follows one call of onHtmlCopy, handler by handler;   *)
(* FetchSpec follows the resolution of one image reference, line by line.  *)
(*                                                                         *)
(* A Python string is modelled as a sequence of atoms.  An atom is a run   *)
(* of characters that the code never splits (a tag name, a word, a URL     *)
(* part) or one of the characters the code and the HTML tokenizer react to *)
(* ("<", "</", ">", " ", "=", the double quote, "&", ":", ";", newline).   *)
(***************************************************************************)
EXTENDS Integers, Sequences, FiniteSets, TLC

(***************************************************************************)
(* Bounds of the exploration                                               *)
(***************************************************************************)
\* number of tokens of a freely chosen document
MaxTokens == 3
\* number of chunks a remote response delivers at most
MaxChunks == 2

(***************************************************************************)
(* Whitelist tables, lines 37-120 and 222                                  *)
(***************************************************************************)
voidElements ==
  { "area", "base", "basefont", "bgsound", "br", "col",
    "command", "embed", "frame", "hr", "image", "img", "input", "isindex",
    "keygen", "link", "menuitem", "meta", "nextid", "param", "source",
    "track", "wbr" }

ignoredTags == { "html", "body" }

\* the literal of lines 47-60 with the ignored tags merged in (line 222)
allowedTags ==
  { "p", "h1", "h2", "h3", "h4", "h5", "blockquote", "pre",
    "img", "a", "span", "br", "code",
    "b", "em", "i", "u", "strong",
    "ul", "ol", "li",
    "div", "table", "tr", "td", "thead", "th", "tbody" } \cup ignoredTags

allowedAttributes ==
  { "style", "src", "alt", "href", "title", "colspan", "rowspan" }

allowedStyles ==
  { "font-weight", "color", "background-color", "font-style",
    "text-align", "valign", "background" }

Decl(k, v) == [k |-> <<k>>, v |-> <<v>>]

\* tags that have an entry in _overrideStyles
overrideTags == { "table", "th", "td", "div" }

\* _overrideStyles[tag].items(), in the order of the literal
overrideStyles(tag) ==
  CASE tag = "table" -> << Decl("box-sizing", "border-box"),
                           Decl("width", "100%"),
                           Decl("margin", ".5em"),
                           Decl("border-collapse", "collapse"),
                           Decl("outline", "1px solid black") >>
    [] tag = "th"    -> << Decl("position", "relative"),
                           Decl("border", "1px solid black"),
                           Decl("padding", ".4em"),
                           Decl("font-size", "1.2em") >>
    [] tag = "td"    -> << Decl("position", "relative"),
                           Decl("border", "1px solid black"),
                           Decl("padding", ".2em") >>
    [] tag = "div"   -> << Decl("padding", ".2em") >>
    [] OTHER         -> << >>

(***************************************************************************)
(* Sequence helpers                                                        *)
(***************************************************************************)
Min(S) == CHOOSE x \in S : \A y \in S : x <= y
Max(S) == CHOOSE x \in S : \A y \in S : x >= y

RECURSIVE Flatten(_)
\* ''.join(list of strings)
Flatten(ss) == IF ss = << >> THEN << >> ELSE Head(ss) \o Flatten(Tail(ss))

(***************************************************************************)
(* _styleRegex = re.compile('(.+?) *: *(.+?);'), line 221, and findall     *)
(***************************************************************************)
\* '.' matches every character but the newline
Dot(s, lo, hi) == \A j \in lo..hi : s[j] # "\n"

\* index of the first atom after position a that is not a space, or Len+1
SkipSpaces(s, a) ==
  LET rest == { j \in (a + 1)..Len(s) : s[j] # " " }
  IN  IF rest = {} THEN Len(s) + 1 ELSE Min(rest)

\* end of the lazy group (.+?) that starts at p and is followed by ';', or 0
LazyEnd(s, p) ==
  LET ends == { e \in p..(Len(s) - 1) : s[e + 1] = ";" }
  IN  IF ends = {} THEN 0
      ELSE IF Dot(s, p, Min(ends)) THEN Min(ends) ELSE 0

\* start of the value group once the colon sits at c: ' *' is greedy and
\* gives spaces back one at a time until (.+?); matches; 0 if it never does
ValueStart(s, c) ==
  LET ps == { p \in (c + 1)..SkipSpaces(s, c) : p <= Len(s) /\ LazyEnd(s, p) # 0 }
  IN  IF ps = {} THEN 0 ELSE Max(ps)

\* the key group s[i..a] is followed by ' *:' and a value
KeyEndsAt(s, i, a) ==
  /\ Dot(s, i, a)
  /\ SkipSpaces(s, a) <= Len(s)
  /\ s[SkipSpaces(s, a)] = ":"
  /\ ValueStart(s, SkipSpaces(s, a)) # 0

MatchesAt(s, i) == \E a \in i..Len(s) : KeyEndsAt(s, i, a)

\* the match that starts at i: the key group is lazy
MatchAt(s, i) ==
  LET a == Min({ x \in i..Len(s) : KeyEndsAt(s, i, x) })
      p == ValueStart(s, SkipSpaces(s, a))
      e == LazyEnd(s, p)
  IN  [k |-> SubSeq(s, i, a), v |-> SubSeq(s, p, e), next |-> e + 2]

RECURSIVE FindallFrom(_, _)
FindallFrom(s, i) ==
  LET starts == { j \in i..Len(s) : MatchesAt(s, j) }
  IN  IF starts = {} THEN << >>
      ELSE LET m == MatchAt(s, Min(starts))
           IN  << [k |-> m.k, v |-> m.v] >> \o FindallFrom(s, m.next)

\* _styleRegex.findall(style)
styleRegexFindall(s) == FindallFrom(s, 1)

(***************************************************************************)
(* Ordered dictionaries (attrDict, styleDict): a sequence of entries, an   *)
(* assignment to an existing key keeps the key's position                  *)
(***************************************************************************)
DictHas(d, k) == \E j \in 1..Len(d) : d[j].k = k

DictIndex(d, k) == CHOOSE j \in 1..Len(d) : d[j].k = k

DictGet(d, k) == d[DictIndex(d, k)]

\* d[e.k] = e
DictSet(d, e) ==
  IF DictHas(d, e.k) THEN [d EXCEPT ![DictIndex(d, e.k)] = e] ELSE Append(d, e)

\* del d[k]
DictDel(d, k) == SelectSeq(d, LAMBDA e : e.k # k)

\* an attribute: name, value, and none = TRUE when the attribute has no value
\* (the tokenizer then passes None)
Attr(k, v) == [k |-> k, v |-> v, none |-> FALSE]
AttrNone(k) == [k |-> k, v |-> << >>, none |-> TRUE]

(***************************************************************************)
(* cgi.escape(v), line 188: quote is left at its default, so the double    *)
(* quote is not replaced                                                   *)
(***************************************************************************)
cgiEscapeAtom(a) ==
  CASE a = "&" -> "&amp;"
    [] a = "<" -> "&lt;"
    [] a = ">" -> "&gt;"
    [] OTHER   -> a

cgiEscape(v) == [j \in 1..Len(v) |-> cgiEscapeAtom(v[j])]

(***************************************************************************)
(* Media: downloadMedia (lines 252-307), SaveImageToMedia (lines 225-241)  *)
(*                                                                         *)
(* A scenario is what the world answers for one reference:                 *)
(*   fileOk   open(path,'rb').read() succeeds                              *)
(*   content  the bytes of the local file                                  *)
(*   open     "ok" or "URLError": the outcome of urlopen for a URL with a  *)
(*            scheme                                                       *)
(*   length   "present" or "absent": whether line 281 obtains a length     *)
(*   total    the length line 281 obtains, in bytes                        *)
(*   chunks   the non-empty chunks the response delivers, in order         *)
(*   failAt   0, or n when the n-th call of response.read raises           *)
(***************************************************************************)
\* bytes that QImage.fromData decodes to an image
Decodable(data) == data # << >> /\ data[1] = "PNG"

\* url.startswith("file://")
IsFileUrl(url) == url # << >> /\ url[1] = "file://"

\* re.match(r'^/[A-Za-z]:\\', url)
IsSlashDrive(url) == Len(url) >= 2 /\ url[1] = "/" /\ url[2] \in { "C:\\" }

\* lines 256-260
LocalPath(url) ==
  LET path == Tail(url) IN IF IsSlashDrive(path) THEN Tail(path) ELSE path

\* what urlopen does with the text it is given, before any network traffic:
\* a text without a scheme raises ValueError, an unknown scheme URLError
UrlKind(url) ==
  IF url # << >> /\ url[1] \in { "http://", "https://", "data:" } THEN "fetchable"
  ELSE IF url # << >> /\ url[1] \in { "C:\\" } THEN "unknownScheme"
  ELSE "noScheme"

Returned(data) == [ret |-> "data", data |-> data, exc |-> ""]
ReturnedNone == [ret |-> "None", data |-> << >>, exc |-> ""]
Raised(exc) == [ret |-> "raise", data |-> << >>, exc |-> exc]

\* line 283
chunk_size == 16384

\* len(chunk), line 288: a chunk is full unless it is the short one
ChunkSize(c) == IF c = "junk" THEN 512 ELSE chunk_size

RECURSIVE SumSizes(_)
SumSizes(chunks) ==
  IF chunks = << >> THEN 0 ELSE ChunkSize(Head(chunks)) + SumSizes(Tail(chunks))

RECURSIVE ReadLoop(_, _, _)
\* lines 286-300; n reads have completed, chunks holds what was appended
ReadLoop(sc, n, chunks) ==
  IF sc.failAt = n + 1 THEN Raised("OSError")
  ELSE IF n + 1 > Len(sc.chunks) THEN Returned(Flatten(chunks))
  ELSE IF sc.total = 0 THEN Raised("ZeroDivisionError")
  ELSE ReadLoop(sc, n + 1, Append(chunks, << sc.chunks[n + 1] >>))

\* Fetch without the except clause of line 302
FetchUncaught(url, sc) ==
  CASE UrlKind(url) = "noScheme"      -> Raised("ValueError")
    [] UrlKind(url) = "unknownScheme" -> Raised("URLError")
    [] OTHER ->
         IF sc.open = "URLError" THEN Raised("URLError")
         ELSE IF sc.length = "absent" THEN Raised("AttributeError")
         ELSE ReadLoop(sc, 0, << >>)

\* lines 279-303
Fetch(url, sc) ==
  CASE UrlKind(url) = "noScheme"      -> Raised("ValueError")
    [] UrlKind(url) = "unknownScheme" -> ReturnedNone
    [] OTHER ->
         IF sc.open = "URLError" THEN ReturnedNone
         ELSE IF sc.length = "absent" THEN Raised("AttributeError")
         ELSE ReadLoop(sc, 0, << >>)

downloadMedia(url, sc) ==
  IF IsFileUrl(url)
  THEN IF sc.fileOk THEN Returned(sc.content) ELSE Fetch(LocalPath(url), sc)
  ELSE Fetch(url, sc)

\* no reference is being resolved
NoFetch == [pc |-> "idle"]

\* the name SaveImageToMedia writes and hands to media.addFile
TmpName(key, png) == << "pasteHTML-", ToString(key), IF png THEN ".png" ELSE ".jpg" >>

\* the bytes im.save writes (lines 230-235): the decoded image in the format
\* and quality of the profile
ReEncoded(imageData, png) == << IF png THEN "png50:" ELSE "jpg80:" >> \o imageData

\* lines 225-241: fname is the returned name, added says whether addFile ran,
\* bytes is what the file handed to addFile holds
SaveImageToMedia(imageData, key, png) ==
  IF Decodable(imageData)
  THEN [fname |-> TmpName(key, png), added |-> TRUE,
        bytes |-> ReEncoded(imageData, png)]
  ELSE [fname |-> << >>, added |-> FALSE, bytes |-> << >>]

(***************************************************************************)
(* NonFormatTagCleaner, lines 128-218.  A parser is the record             *)
(*   tagStack, nonAllowedTagCountInStack, output, parseError               *)
(* together with what the handlers did to the world:                       *)
(*   tooltips   the arguments of tooltip(), in call order                  *)
(*   mediaFiles the calls of media.addFile(), in call order: the path      *)
(*              given, the bytes of that file and the name returned        *)
(*   downloads  the arguments of downloadMedia(), in call order            *)
(*   nextKey    the serial number the next QImage gets as cacheKey         *)
(*   raised     "" or the exception that left the handler                  *)
(***************************************************************************)
NewParser(tooltips, mediaFiles, downloads, nextKey) ==
  [ tagStack |-> << >>, nonAllowedTagCountInStack |-> 0, output |-> << >>,
    parseError |-> FALSE, tooltips |-> tooltips, mediaFiles |-> mediaFiles,
    downloads |-> downloads, nextKey |-> nextKey, raised |-> "" ]

\* writeData without the test of the suppression counter
writeDataAlways(ps, data) == [ps EXCEPT !.output = Append(@, data)]

\* lines 138-140
writeData(ps, data) ==
  IF ps.nonAllowedTagCountInStack = 0
  THEN [ps EXCEPT !.output = Append(@, data)]
  ELSE ps

\* lines 143-146
PushTag(ps, tag) ==
  IF tag \notin voidElements
  THEN [ps EXCEPT !.tagStack = Append(@, tag),
                  !.nonAllowedTagCountInStack =
                     IF tag \notin allowedTags THEN @ + 1 ELSE @]
  ELSE ps

RECURSIVE FilterAttrs(_, _)
\* lines 152-155
FilterAttrs(attrs, attrDict) ==
  IF attrs = << >> THEN attrDict
  ELSE FilterAttrs(Tail(attrs),
                   IF Head(attrs).k \in allowedAttributes
                   THEN DictSet(attrDict, Head(attrs)) ELSE attrDict)

\* k in _allowedStyles, for a key captured by the regex
StyleAllowed(k) == Len(k) = 1 /\ k[1] \in allowedStyles

RECURSIVE FilterStyles(_, _)
\* lines 158-161
FilterStyles(decls, styleDict) ==
  IF decls = << >> THEN styleDict
  ELSE FilterStyles(Tail(decls),
                    IF StyleAllowed(Head(decls).k)
                    THEN DictSet(styleDict, Head(decls)) ELSE styleDict)

RECURSIVE ApplyAll(_, _)
ApplyAll(decls, styleDict) ==
  IF decls = << >> THEN styleDict
  ELSE ApplyAll(Tail(decls), DictSet(styleDict, Head(decls)))

\* the style dictionary without the overrides of lines 164-166
OverrideStylesSkipped(tag, styleDict) == styleDict

\* lines 164-166
OverrideStylesOf(tag, styleDict) ==
  IF tag \in overrideTags THEN ApplyAll(overrideStyles(tag), styleDict) ELSE styleDict

\* lines 158-166
StyleDictOf(tag, style) == OverrideStylesOf(tag, FilterStyles(styleRegexFindall(style), << >>))

RECURSIVE JoinStyles(_)
\* ''.join("%s:%s;" % (k, v) ...), lines 169-171
JoinStyles(styleDict) ==
  IF styleDict = << >> THEN << >>
  ELSE Head(styleDict).k \o << ":" >> \o Head(styleDict).v \o << ";" >>
         \o JoinStyles(Tail(styleDict))

\* lines 168-173
WithStyle(attrDict, styleDict) ==
  IF styleDict # << >>
  THEN DictSet(attrDict, Attr("style", JoinStyles(styleDict)))
  ELSE DictDel(attrDict, "style")

RECURSIVE JoinAttrs(_)
\* ' '.join('%s="%s"' % (k, cgi.escape(v)) ...), lines 187-189
JoinAttrs(attrDict) ==
  IF attrDict = << >> THEN << >>
  ELSE << Head(attrDict).k, "=", "\"" >> \o cgiEscape(Head(attrDict).v) \o << "\"" >>
         \o (IF Len(attrDict) > 1 THEN << " " >> ELSE << >>)
         \o JoinAttrs(Tail(attrDict))

\* "<%s%s>" % (tag, attrStr), lines 186-194
StartTagText(tag, attrDict) ==
  << "<", tag >>
    \o (IF attrDict # << >> THEN << " " >> \o JoinAttrs(attrDict) ELSE << >>)
    \o << ">" >>

EndTagText(tag) == << "</", tag, ">" >>

\* line 240: media.addFile is given the path of the temporary file and
\* returns the name the collection stores it under, which is the name of the
\* file: no file of that name is there yet, the key being fresh
addFile(saved) == [path |-> saved.fname, bytes |-> saved.bytes, name |-> saved.fname]

\* lines 177-184: the image is resolved and the src attribute rewritten
ResolveImage(ps, attrDict, sc, png) ==
  LET src == DictGet(attrDict, "src")
      got == IF src.none THEN Raised("AttributeError")
             ELSE downloadMedia(src.v, sc)
      called == [ps EXCEPT !.downloads = Append(@, src)]
  IN  CASE got.ret = "raise" ->
             [ps |-> [called EXCEPT !.raised = got.exc], attrDict |-> attrDict]
        [] got.ret = "data" /\ got.data # << >> ->
             LET saved == SaveImageToMedia(got.data, ps.nextKey, png)
             IN  [ps |-> [called EXCEPT
                            !.nextKey = @ + 1,
                            !.mediaFiles = IF saved.added
                                           THEN Append(@, addFile(saved))
                                           ELSE @],
                  attrDict |-> DictSet(attrDict, Attr("src", saved.fname))]
        [] OTHER ->
             [ps |-> [called EXCEPT !.tooltips = Append(@, src.v)],
              attrDict |-> attrDict]

\* the image step made only where the tag will be written
ImageStepUnlessSuppressed(ps, tag, attrDict, sc, png) ==
  IF tag = "img" /\ DictHas(attrDict, "src") /\ ps.nonAllowedTagCountInStack = 0
  THEN ResolveImage(ps, attrDict, sc, png)
  ELSE [ps |-> ps, attrDict |-> attrDict]

\* lines 176-184: the parser and the attributes after the image step
ImageStep(ps, tag, attrDict, sc, png) ==
  IF tag = "img" /\ DictHas(attrDict, "src")
  THEN ResolveImage(ps, attrDict, sc, png)
  ELSE [ps |-> ps, attrDict |-> attrDict]

\* lines 142-194
handle_starttag(ps0, tag, attrs, sc, png) ==
  LET ps1 == PushTag(ps0, tag)
      attrDict1 == FilterAttrs(attrs, << Attr("style", << >>) >>)
      style == DictGet(attrDict1, "style")
  IN  IF tag \in ignoredTags THEN ps1
      ELSE IF style.none THEN [ps1 EXCEPT !.raised = "TypeError"]
      ELSE LET attrDict2 == WithStyle(attrDict1, StyleDictOf(tag, style.v))
               img == ImageStep(ps1, tag, attrDict2, sc, png)
           IN  IF img.ps.raised # "" THEN img.ps
               ELSE IF \E j \in 1..Len(img.attrDict) : img.attrDict[j].none
               THEN [img.ps EXCEPT !.raised = "AttributeError"]
               ELSE writeData(img.ps, StartTagText(tag, img.attrDict))

RECURSIVE PopUntil(_, _)
\* lines 201-203: the stack and whether an entry was discarded
PopUntil(stack, tag) ==
  IF stack # << >> /\ stack[Len(stack)] # tag
  THEN [PopUntil(SubSeq(stack, 1, Len(stack) - 1), tag) EXCEPT !.popped = TRUE]
  ELSE [stack |-> stack, popped |-> FALSE]

\* lines 196-212
handle_endtag(ps, tag) ==
  IF tag \in voidElements THEN ps
  ELSE LET r == PopUntil(ps.tagStack, tag)
           ps1 == [ps EXCEPT
                     !.tagStack = IF r.stack # << >>
                                  THEN SubSeq(r.stack, 1, Len(r.stack) - 1)
                                  ELSE r.stack,
                     !.parseError = @ \/ r.popped]
       IN  IF tag \in allowedTags
           THEN IF tag \notin ignoredTags THEN writeData(ps1, EndTagText(tag)) ELSE ps1
           ELSE [ps1 EXCEPT !.nonAllowedTagCountInStack = @ - 1]

\* lines 214-215
handle_data(ps, data) == writeData(ps, data)

\* lines 217-218
flush(ps) == Flatten(ps.output)

(***************************************************************************)
(* HTMLParser.feed (line 246): the tokenizer of the standard library, as   *)
(* far as the markup this model writes needs it.  A token is one handler   *)
(* call.                                                                   *)
(***************************************************************************)
StartTok(tag, attrs) == [type |-> "start", tag |-> tag, attrs |-> attrs, text |-> << >>]
EndTok(tag) == [type |-> "end", tag |-> tag, attrs |-> << >>, text |-> << >>]
DataTok(text) == [type |-> "data", tag |-> "", attrs |-> << >>, text |-> text]

\* elements whose content the tokenizer reads as text up to their end tag
cdataElements == { "script", "style" }

unescapeAtom(a) ==
  CASE a = "&amp;" -> "&"
    [] a = "&lt;"  -> "<"
    [] a = "&gt;"  -> ">"
    [] a = "&quot;" -> "\""
    [] OTHER       -> a

\* html.unescape, applied to attribute values and (convert_charrefs) to text
unescape(v) == [j \in 1..Len(v) |-> unescapeAtom(v[j])]

\* first index j >= i with s[j] = a, or 0
IndexFrom(s, i, a) ==
  LET js == { j \in i..Len(s) : s[j] = a } IN IF js = {} THEN 0 ELSE Min(js)

RECURSIVE ParseAttrs(_, _)
\* the attributes between the tag name and '>'
ParseAttrs(a, i) ==
  IF i > Len(a) THEN << >>
  ELSE IF a[i] = " " THEN ParseAttrs(a, i + 1)
  ELSE IF i + 1 <= Len(a) /\ a[i + 1] = "="
  THEN IF i + 2 <= Len(a) /\ a[i + 2] = "\""
       THEN LET close == IndexFrom(a, i + 3, "\"")
            IN  IF close = 0 THEN << AttrNone(a[i]) >>
                ELSE << Attr(a[i], unescape(SubSeq(a, i + 3, close - 1))) >>
                       \o ParseAttrs(a, close + 1)
       ELSE LET sp == IndexFrom(a, i + 2, " ")
                end == IF sp = 0 THEN Len(a) ELSE sp - 1
            IN  << Attr(a[i], unescape(SubSeq(a, i + 2, end))) >>
                   \o ParseAttrs(a, end + 1)
  ELSE << AttrNone(a[i]) >> \o ParseAttrs(a, i + 1)

TextTok(text) == IF text = << >> THEN << >> ELSE << DataTok(unescape(text)) >>

\* index of the end tag that closes the cdata element opened before i, or 0
CdataEnd(s, i, tag) ==
  LET ks == { k \in i..(Len(s) - 2) :
                s[k] = "</" /\ s[k + 1] = tag /\ s[k + 2] = ">" }
  IN  IF ks = {} THEN 0 ELSE Min(ks)

RECURSIVE Tokenize(_, _, _)
\* the handler calls feed makes for s[i..]; text is the pending text
Tokenize(s, i, text) ==
  IF i > Len(s) THEN TextTok(text)
  ELSE IF s[i] \in { "<", "</" } /\ i + 1 <= Len(s)
  THEN LET gt == IndexFrom(s, i + 1, ">")
       IN  IF gt = 0 THEN TextTok(text)  \* an incomplete tag stays in rawdata
           ELSE IF s[i] = "</"
           THEN TextTok(text) \o << EndTok(s[i + 1]) >> \o Tokenize(s, gt + 1, << >>)
           ELSE LET tok == StartTok(s[i + 1], ParseAttrs(SubSeq(s, i + 2, gt - 1), 1))
                    k == CdataEnd(s, gt + 1, s[i + 1])
                IN  IF s[i + 1] \in cdataElements
                    THEN IF k = 0
                         THEN TextTok(text) \o << tok >>
                                \o (IF gt < Len(s)
                                    THEN << DataTok(SubSeq(s, gt + 1, Len(s))) >>
                                    ELSE << >>)
                         ELSE TextTok(text) \o << tok >>
                                \o (IF k > gt + 1
                                    THEN << DataTok(SubSeq(s, gt + 1, k - 1)) >>
                                    ELSE << >>)
                                \o Tokenize(s, k, << >>)
                    ELSE TextTok(text) \o << tok >> \o Tokenize(s, gt + 1, << >>)
  ELSE Tokenize(s, i + 1, Append(text, s[i]))

\* the handler calls of parser.feed(data)
feed(data) == Tokenize(data, 1, << >>)

(***************************************************************************)
(* cleanTag, lines 244-249: re.sub('^\s*\n', '', data, flags=re.M)         *)
(***************************************************************************)
IsWhite(a) == a \in { " ", "\n" }

\* end of the run of whitespace that starts at i (i - 1 if there is none)
WhiteRunEnd(s, i) ==
  LET stops == { j \in i..Len(s) : ~IsWhite(s[j]) }
  IN  IF stops = {} THEN Len(s) ELSE Min(stops) - 1

\* last newline of the whitespace run that starts at i, or 0
LastNewline(s, i) ==
  LET ns == { j \in i..WhiteRunEnd(s, i) : s[j] = "\n" }
  IN  IF ns = {} THEN 0 ELSE Max(ns)

RECURSIVE SubBlankLines(_, _)
SubBlankLines(s, i) ==
  IF i > Len(s) THEN << >>
  ELSE IF (i = 1 \/ s[i - 1] = "\n") /\ LastNewline(s, i) # 0
  THEN SubBlankLines(s, LastNewline(s, i) + 1)
  ELSE << s[i] >> \o SubBlankLines(s, i + 1)

\* lines 247-249: what cleanTag returns for a parser that was fed
cleanTagResult(ps) == SubBlankLines(flush(ps), 1)

(***************************************************************************)
(* Documents.  A document is the sequence of handler calls the tokenizer   *)
(* makes for it.  A free document is built from FreeTokens, one token at a *)
(* time; the named documents are the examples of the specification and the *)
(* shapes the free tokens are too few for.                                 *)
(***************************************************************************)
UrlRemote == << "http://", "host/a.png?x=1", "&", "y=2" >>
UrlFile == << "file://", "/pics/a.png" >>
UrlWinFile == << "file://", "/", "C:\\", "pics\\a.png" >>
InputUrls == { UrlRemote, UrlFile, UrlWinFile }

FreeTokens ==
  { StartTok("b", << >>),
    StartTok("foo", << >>),
    StartTok("hr", << >>),
    StartTok("html", << >>),
    StartTok("div", << Attr("onclick", << "evil()" >>) >>),
    StartTok("img", << Attr("src", UrlRemote) >>),
    EndTok("b"), EndTok("foo"), EndTok("div"), EndTok("html"),
    DataTok(<< "text" >>) }

DocNames ==
  { "EndToEnd", "Mismatched", "TableWidth", "TableSpaced", "NestedSuppress",
    "QuotedTitle", "EmptyColor", "BareHref", "BareStyle", "LocalImage",
    "WinImage", "BlankLines", "EntityText", "TwoImages" }

Doc(name) ==
  CASE name = "EndToEnd" ->
         << StartTok("div", << Attr("onclick", << "evil()" >>) >>),
            StartTok("p", << Attr("style", << "color", ":", "red", ";", "unknown", ":", "1" >>) >>),
            DataTok(<< "Hi " >>),
            StartTok("script", << >>), DataTok(<< "bad()" >>), EndTok("script"),
            DataTok(<< "there" >>), EndTok("p"), EndTok("div") >>
    [] name = "Mismatched" ->
         << StartTok("b", << >>), StartTok("i", << >>), DataTok(<< "text" >>),
            EndTok("b"), EndTok("i") >>
    [] name = "TableWidth" ->
         << StartTok("table", << Attr("style", << "width", ":", "10px", ";" >>) >>),
            EndTok("table") >>
    [] name = "TableSpaced" ->
         << StartTok("table", << Attr("style", << "color", ":", "red", ";", " ",
                                                   "font-weight", ":", "bold", ";" >>) >>),
            EndTok("table") >>
    [] name = "NestedSuppress" ->
         << StartTok("div", << >>), DataTok(<< "a" >>),
            StartTok("foo", << >>), StartTok("b", << >>), DataTok(<< "x" >>),
            StartTok("br", << >>), EndTok("b"), EndTok("foo"),
            StartTok("i", << >>), DataTok(<< "y" >>), EndTok("i"), EndTok("div") >>
    [] name = "QuotedTitle" ->
         << StartTok("a", << Attr("title", << "x", "\"", " ", "onclick", "=", "\"", "evil()" >>) >>),
            DataTok(<< "y" >>), EndTok("a") >>
    [] name = "EmptyColor" ->
         << StartTok("p", << Attr("style", << "color", ":", ";", "position", ":", "fixed", ";" >>) >>),
            DataTok(<< "x" >>), EndTok("p") >>
    [] name = "BareHref" ->
         << StartTok("a", << AttrNone("href") >>), DataTok(<< "y" >>), EndTok("a") >>
    [] name = "BareStyle" ->
         << StartTok("p", << AttrNone("style") >>), DataTok(<< "y" >>), EndTok("p") >>
    [] name = "LocalImage" ->
         << StartTok("p", << >>),
            StartTok("img", << Attr("alt", << "pic" >>), Attr("src", UrlFile) >>),
            EndTok("p") >>
    [] name = "WinImage" ->
         << StartTok("img", << Attr("src", UrlWinFile) >>), DataTok(<< "z" >>) >>
    [] name = "BlankLines" ->
         << DataTok(<< "a", "\n", "\n" >>), StartTok("foo", << >>), DataTok(<< "x" >>),
            EndTok("foo"), DataTok(<< "\n", " ", "\n", "b" >>) >>
    [] name = "EntityText" ->
         << StartTok("p", << >>), DataTok(<< "<", "foo", ">", "x" >>), EndTok("p") >>
    [] name = "TwoImages" ->
         << StartTok("img", << Attr("src", UrlRemote) >>),
            StartTok("foo", << >>),
            StartTok("img", << Attr("src", UrlFile) >>),
            EndTok("foo"), DataTok(<< "z" >>) >>

(***************************************************************************)
(* The markup of a document: the string mime.html() returns (line 335) for *)
(* the clipboard whose markup makes the tokenizer deliver these calls      *)
(***************************************************************************)
escapeAtom(a) ==
  CASE a = "&"  -> "&amp;"
    [] a = "<"  -> "&lt;"
    [] a = ">"  -> "&gt;"
    [] a = "\"" -> "&quot;"
    [] OTHER    -> a

escape(v) == [j \in 1..Len(v) |-> escapeAtom(v[j])]

RECURSIVE MarkupAttrs(_)
MarkupAttrs(attrs) ==
  IF attrs = << >> THEN << >>
  ELSE (IF Head(attrs).none THEN << " ", Head(attrs).k >>
        ELSE << " ", Head(attrs).k, "=", "\"" >> \o escape(Head(attrs).v) \o << "\"" >>)
       \o MarkupAttrs(Tail(attrs))

RECURSIVE Markup(_, _)
\* cdata says that the tokens follow the start tag of a script or style
Markup(tokens, cdata) ==
  IF tokens = << >> THEN << >>
  ELSE LET t == Head(tokens)
       IN  CASE t.type = "start" ->
                  << "<", t.tag >> \o MarkupAttrs(t.attrs) \o << ">" >>
                    \o Markup(Tail(tokens), t.tag \in cdataElements)
             [] t.type = "end" -> << "</", t.tag, ">" >> \o Markup(Tail(tokens), FALSE)
             [] OTHER -> (IF cdata THEN t.text ELSE escape(t.text))
                           \o Markup(Tail(tokens), FALSE)

(***************************************************************************)
(* The answers of the world to one reference                               *)
(***************************************************************************)
Scenario(fileOk, content, open, length, total, chunks, failAt, png) ==
  [ fileOk |-> fileOk, content |-> content, open |-> open, length |-> length,
    total |-> total, chunks |-> chunks, failAt |-> failAt, png |-> png ]

\* no answer recorded yet
NoScenario == Scenario(FALSE, << >>, "unset", "absent", 0, << >>, 0, FALSE)

RECURSIVE ChunkSeqs(_)
\* the chunk sequences of at most n chunks: a first chunk that starts an
\* image or not, followed by further chunks
ChunkSeqs(n) ==
  IF n = 0 THEN { << >> }
  ELSE IF n = 1 THEN { << >>, << "PNG" >>, << "junk" >> }
  ELSE ChunkSeqs(n - 1) \cup
         { Append(c, "more") : c \in { x \in ChunkSeqs(n - 1) : Len(x) = n - 1 } }

\* the declared length is the length delivered, except where the response
\* declares less than it delivers (a length beside a chunked body) or nothing
RemoteScenarios ==
  { Scenario(FALSE, << >>, "URLError", "absent", 0, << >>, 0, FALSE),
    Scenario(FALSE, << >>, "ok", "absent", 0, << "PNG" >>, 0, FALSE) }
  \cup { Scenario(FALSE, << >>, "ok", "present", SumSizes(c), c, f, FALSE) :
           c \in ChunkSeqs(MaxChunks), f \in 0..1 }
  \cup { Scenario(FALSE, << >>, "ok", "present", SumSizes(c), c, Len(c) + 1, FALSE) :
           c \in ChunkSeqs(MaxChunks) \ { << >> } }
  \cup { Scenario(FALSE, << >>, "ok", "present", SumSizes(<< "PNG" >>), << "PNG" >>, 0, TRUE) }
  \cup { Scenario(FALSE, << >>, "ok", "present", t, << "PNG" >>, 0, FALSE) :
           t \in { 0, ChunkSize("junk") } }

LocalScenarios ==
  { Scenario(FALSE, << >>, "URLError", "absent", 0, << >>, 0, FALSE) }
  \cup { Scenario(TRUE, c, "URLError", "absent", 0, << >>, 0, png) :
           c \in ChunkSeqs(1), png \in BOOLEAN }

\* the scenarios the world can answer a reference with
Scenarios(url) ==
  IF IsFileUrl(url) THEN LocalScenarios
  ELSE IF UrlKind(url) = "fetchable" THEN RemoteScenarios
  ELSE { NoScenario }

(***************************************************************************)
(* State                                                                   *)
(*   parser  the NonFormatTagCleaner of the running cleanTag call          *)
(*   input   the handler calls made so far in this call                    *)
(*   doc     "free", a name of DocNames, or "again" for a second call;     *)
(*           "fetch" where only the resolution of a reference is followed  *)
(*   rest    the handler calls still to come of a document that is fixed   *)
(*   pc      "feed", "returned" (cleanTag returned result) or "raised";    *)
(*           "fetch" where only the resolution of a reference is followed  *)
(*   result  the string cleanTag returned                                  *)
(*   pass    1 for cleanTag(x), 2 for cleanTag(cleanTag(x))                *)
(*   first   the result of pass 1, during pass 2                           *)
(*   net     the scenario the world has answered each reference with       *)
(*   clipboard  the markup of the calls of clip.setMimeData, in call order *)
(*   pastes  the markup of the calls of editor.doPaste, in call order      *)
(*   fetch   the resolution of one reference, step by step (see below)     *)
(* onHtmlCopy (lines 328-342) is the caller of cleanTag: pc is "called"    *)
(* before it has looked at the clipboard and "done" when it has returned.  *)
(* doc is "nohtml" for a clipboard that holds no HTML.                     *)
(***************************************************************************)
VARIABLES parser, input, doc, rest, pc, result, pass, first, net,
          clipboard, pastes, fetch

vars == << parser, input, doc, rest, pc, result, pass, first, net,
           clipboard, pastes, fetch >>

host == << clipboard, pastes, fetch >>

Init ==
  /\ parser = NewParser(<< >>, << >>, << >>, 1)
  /\ input = << >>
  /\ doc \in { "free", "nohtml" } \cup DocNames
  /\ rest = IF doc \in { "free", "nohtml" } THEN << >> ELSE Doc(doc)
  /\ pc = IF doc = "nohtml" THEN "called" ELSE "feed"
  /\ result = << >>
  /\ pass = 1
  /\ first = << >>
  /\ net = [u \in InputUrls |-> NoScenario]
  /\ clipboard = << >>
  /\ pastes = << >>
  /\ fetch = NoFetch

\* the handler calls that can come next
NextTokens ==
  IF doc = "free"
  THEN IF Len(input) < MaxTokens
       THEN { t \in FreeTokens :
                \* the tokenizer delivers adjacent text in one call
                ~(t.type = "data" /\ input # << >> /\ input[Len(input)].type = "data") }
       ELSE { }
  ELSE IF rest # << >> THEN { Head(rest) } ELSE { }

\* the reference an img start tag makes the handler resolve, if any
SrcOf(tok) ==
  LET d == FilterAttrs(tok.attrs, << >>)
  IN  IF tok.type = "start" /\ tok.tag = "img" /\ DictHas(d, "src") /\ ~DictGet(d, "src").none
      THEN DictGet(d, "src").v ELSE << >>

\* the scenarios the world may answer tok with: the one it gave before for
\* the same reference, else any
ScenariosFor(tok) ==
  IF SrcOf(tok) \in InputUrls
  THEN IF net[SrcOf(tok)] # NoScenario THEN { net[SrcOf(tok)] }
       ELSE Scenarios(SrcOf(tok))
  ELSE { NoScenario }

Consume(tok, ps, sc) ==
  /\ parser' = ps
  /\ input' = Append(input, tok)
  /\ rest' = IF doc = "free" THEN rest ELSE Tail(rest)
  /\ pc' = IF ps.raised # "" THEN "raised" ELSE "feed"
  /\ net' = IF SrcOf(tok) \in InputUrls THEN [net EXCEPT ![SrcOf(tok)] = sc] ELSE net
  /\ UNCHANGED << doc, result, pass, first >>
  /\ UNCHANGED host

\* feed calls handle_starttag
StartTag ==
  /\ pc = "feed"
  /\ \E tok \in NextTokens :
       /\ tok.type = "start"
       /\ \E sc \in ScenariosFor(tok) :
            Consume(tok, handle_starttag(parser, tok.tag, tok.attrs, sc, sc.png), sc)

\* feed calls handle_endtag
EndTag ==
  /\ pc = "feed"
  /\ \E tok \in NextTokens :
       /\ tok.type = "end"
       /\ Consume(tok, handle_endtag(parser, tok.tag), NoScenario)

\* feed calls handle_data
Data ==
  /\ pc = "feed"
  /\ \E tok \in NextTokens :
       /\ tok.type = "data"
       /\ Consume(tok, handle_data(parser, tok.text), NoScenario)

\* feed is done: cleanTag flushes, drops the blank lines and returns
Return ==
  /\ pc = "feed"
  /\ doc = "free" \/ rest = << >>
  /\ pc' = "returned"
  /\ result' = cleanTagResult(parser)
  /\ UNCHANGED << parser, input, doc, rest, pass, first, net >>
  /\ UNCHANGED host

\* cleanTag is called on the markup it returned
Again ==
  /\ pc = "returned"
  /\ pass = 1
  /\ parser' = NewParser(parser.tooltips, parser.mediaFiles, parser.downloads, parser.nextKey)
  /\ input' = << >>
  /\ doc' = "again"
  /\ rest' = feed(result)
  /\ pc' = "feed"
  /\ pass' = 2
  /\ first' = result
  /\ UNCHANGED << result, net >>
  /\ UNCHANGED host

\* the except clause of line 336 pastes what the parser has written so far
writtenHtml == cleanTagResult(parser)

\* mime.html(), line 335: the markup on the clipboard
mimeHtml == IF doc = "again" THEN first ELSE Markup(input \o rest, FALSE)

\* lines 332-342, after cleanTag returned or raised
Paste ==
  /\ pc \in { "returned", "raised" }
  /\ LET newHtml == IF pc = "returned" THEN result ELSE mimeHtml
     IN  /\ clipboard' = Append(clipboard, newHtml)
         /\ pastes' = Append(pastes, newHtml)
  /\ pc' = "done"
  /\ UNCHANGED << parser, input, doc, rest, result, pass, first, net, fetch >>

\* line 332: the clipboard holds no HTML
NoHtml ==
  /\ pc = "called"
  /\ doc = "nohtml"
  /\ pc' = "done"
  /\ UNCHANGED << parser, input, doc, rest, result, pass, first, net >>
  /\ UNCHANGED host

Next == StartTag \/ EndTag \/ Data \/ Return \/ Again \/ Paste \/ NoHtml

Spec == Init /\ [][Next]_vars

(***************************************************************************)
(* The resolution of one reference, step by step: the image step of        *)
(* handle_starttag (lines 176-184) with downloadMedia (lines 252-307)      *)
(* unfolded.  fetch is the record                                          *)
(*   pc        the position: "called", "dialog", "open", "length", "read", *)
(*             "title", "events", "join", "finally", "returned", "done"    *)
(*   src, sc   the reference and what the world answers for it             *)
(*   url       the local variable url                                      *)
(*   shown, closed  the number of calls of d.show() and of d.close()       *)
(*   opened    the arguments of urlopen, in call order                     *)
(*   reads     the number of calls of response.read that have returned     *)
(*   chunk     the chunk of the current iteration                          *)
(*   currentRead, chunks  the local variables of these names               *)
(*   titles    the progress values of the calls of d.setWindowTitle        *)
(*   cancel    the user asked for the download to stop (an event that      *)
(*             app.processEvents delivered)                                *)
(*   eos       response.read returned an empty chunk                       *)
(*   pending   the outcome the finally clause lets through                 *)
(*   ret       the outcome of downloadMedia                                *)
(*   stored, tooltips  the calls of media.addFile and of tooltip           *)
(*   newSrc    the src attribute after the image step                      *)
(***************************************************************************)
Pending == [ret |-> "pending", data |-> << >>, exc |-> ""]

StartFetch(url, sc) ==
  [ pc |-> "called", src |-> url, sc |-> sc, url |-> url, shown |-> 0,
    closed |-> 0, opened |-> << >>, reads |-> 0, chunk |-> << >>,
    currentRead |-> 0, chunks |-> << >>, titles |-> << >>, cancel |-> FALSE,
    eos |-> FALSE, pending |-> Pending, ret |-> Pending, stored |-> << >>,
    tooltips |-> << >>, newSrc |-> url ]

\* an exception leaves the try block without the finally clause being run
UnwindNoFinally(f, out) ==
  IF out.ret = "raise" THEN [f EXCEPT !.ret = out, !.pc = "returned"]
  ELSE [f EXCEPT !.pending = out, !.pc = "finally"]

\* lines 300-305: control leaves the try block with outcome out
Unwind(f, out) == [f EXCEPT !.pending = out, !.pc = "finally"]

\* lines 254-263
TryLocalStep(f) ==
  IF IsFileUrl(f.url)
  THEN IF f.sc.fileOk
       THEN [f EXCEPT !.url = LocalPath(f.url), !.ret = Returned(f.sc.content),
                      !.pc = "returned"]
       ELSE [f EXCEPT !.url = LocalPath(f.url), !.pc = "dialog"]
  ELSE [f EXCEPT !.pc = "dialog"]

\* lines 265-276
ShowDialogStep(f) == [f EXCEPT !.shown = @ + 1, !.pc = "open"]

\* line 280, and line 302 for the URLError it raises
UrlOpenStep(f) ==
  LET g == [f EXCEPT !.opened = Append(@, f.url)]
  IN  CASE UrlKind(f.url) = "noScheme"      -> Unwind(g, Raised("ValueError"))
        [] UrlKind(f.url) = "unknownScheme" -> Unwind(g, ReturnedNone)
        [] OTHER -> IF f.sc.open = "URLError" THEN Unwind(g, ReturnedNone)
                    ELSE [g EXCEPT !.pc = "length"]

\* lines 281-284
ContentLengthStep(f) ==
  IF f.sc.length = "absent" THEN Unwind(f, Raised("AttributeError"))
  ELSE [f EXCEPT !.pc = "read"]

\* response.read raised and the chunks read so far are returned
ReadFailedKeepsChunks(f) == Unwind(f, Returned(Flatten(f.chunks)))

\* line 287, response.read raises
ReadFailed(f) == Unwind(f, Raised("OSError"))

\* lines 287-291
ReadChunkStep(f) ==
  IF f.sc.failAt = f.reads + 1 THEN ReadFailed(f)
  ELSE IF f.reads + 1 > Len(f.sc.chunks)
  THEN [f EXCEPT !.reads = @ + 1, !.chunk = << >>, !.eos = TRUE, !.pc = "join"]
  ELSE LET chunk == f.sc.chunks[f.reads + 1]
       IN  [f EXCEPT !.reads = @ + 1, !.chunk = << chunk >>,
                     !.currentRead = @ + ChunkSize(chunk), !.pc = "title"]

\* lines 293-296: the progress value is currentRead * 100.0 / totSize
SetTitleStep(f) ==
  IF f.sc.total = 0 THEN Unwind(f, Raised("ZeroDivisionError"))
  ELSE [f EXCEPT !.titles = Append(@, [read |-> f.currentRead, total |-> f.sc.total]),
                 !.pc = "events"]

\* lines 297-298: the events are handled, asked says whether one of them is
\* the user's request to stop, and the loop goes on
ProcessEventsStep(f, asked) ==
  [f EXCEPT !.cancel = @ \/ asked, !.chunks = Append(@, f.chunk), !.pc = "read"]

\* line 300
JoinStep(f) == Unwind(f, Returned(Flatten(f.chunks)))

\* lines 304-307
CloseDialogStep(f) ==
  [f EXCEPT !.closed = @ + 1, !.ret = f.pending, !.pc = "returned"]

\* lines 177-184, after downloadMedia
ResumeStep(f) ==
  CASE f.ret.ret = "raise" -> [f EXCEPT !.pc = "done"]
    [] f.ret.ret = "data" /\ f.ret.data # << >> ->
         LET saved == SaveImageToMedia(f.ret.data, 1, f.sc.png)
         IN  [f EXCEPT !.stored = IF saved.added THEN Append(@, addFile(saved)) ELSE @,
                       !.newSrc = saved.fname, !.pc = "done"]
    [] OTHER -> [f EXCEPT !.tooltips = Append(@, f.src), !.pc = "done"]

\* a reference without a scheme
UrlBare == << "pics/a.png" >>

FetchUrls == InputUrls \cup { UrlBare }

FetchInit ==
  /\ parser = NewParser(<< >>, << >>, << >>, 1)
  /\ input = << >>
  /\ doc = "fetch"
  /\ rest = << >>
  /\ pc = "fetch"
  /\ result = << >>
  /\ pass = 1
  /\ first = << >>
  /\ net = [u \in InputUrls |-> NoScenario]
  /\ clipboard = << >>
  /\ pastes = << >>
  /\ \E url \in FetchUrls : \E sc \in Scenarios(url) : fetch = StartFetch(url, sc)

cleaner == << parser, input, doc, rest, pc, result, pass, first, net, clipboard, pastes >>

TryLocal == fetch.pc = "called" /\ fetch' = TryLocalStep(fetch) /\ UNCHANGED cleaner

ShowDialog == fetch.pc = "dialog" /\ fetch' = ShowDialogStep(fetch) /\ UNCHANGED cleaner

UrlOpen == fetch.pc = "open" /\ fetch' = UrlOpenStep(fetch) /\ UNCHANGED cleaner

ContentLength == fetch.pc = "length" /\ fetch' = ContentLengthStep(fetch) /\ UNCHANGED cleaner

ReadChunk == fetch.pc = "read" /\ fetch' = ReadChunkStep(fetch) /\ UNCHANGED cleaner

SetTitle == fetch.pc = "title" /\ fetch' = SetTitleStep(fetch) /\ UNCHANGED cleaner

ProcessEvents ==
  /\ fetch.pc = "events"
  /\ \E asked \in BOOLEAN : fetch' = ProcessEventsStep(fetch, asked)
  /\ UNCHANGED cleaner

JoinChunks == fetch.pc = "join" /\ fetch' = JoinStep(fetch) /\ UNCHANGED cleaner

CloseDialog == fetch.pc = "finally" /\ fetch' = CloseDialogStep(fetch) /\ UNCHANGED cleaner

Resume == fetch.pc = "returned" /\ fetch' = ResumeStep(fetch) /\ UNCHANGED cleaner

FetchNext ==
  \/ TryLocal \/ ShowDialog \/ UrlOpen \/ ContentLength \/ ReadChunk
  \/ SetTitle \/ ProcessEvents \/ JoinChunks \/ CloseDialog \/ Resume

FetchSpec == FetchInit /\ [][FetchNext]_vars

\* the steps are downloadMedia and the image step, unfolded
FetchAgrees ==
  fetch.pc \in { "returned", "done" } => fetch.ret = downloadMedia(fetch.src, fetch.sc)

(***************************************************************************)
(* Reading the output: what an HTML reader finds in the markup written     *)
(***************************************************************************)
\* the tags and text of the markup written so far
OutputTokens == feed(flush(parser))

Last(q) == q[Len(q)]

RECURSIVE TrimLeft(_)
TrimLeft(s) == IF s # << >> /\ Head(s) = " " THEN TrimLeft(Tail(s)) ELSE s

RECURSIVE TrimRight(_)
TrimRight(s) ==
  IF s # << >> /\ Last(s) = " " THEN TrimRight(SubSeq(s, 1, Len(s) - 1)) ELSE s

Trim(s) == TrimLeft(TrimRight(s))

RECURSIVE CssSegments(_)
\* a style value split at its semicolons; term says the segment ended in one
CssSegments(s) ==
  IF s = << >> THEN << >>
  ELSE LET semi == IndexFrom(s, 1, ";")
       IN  IF semi = 0 THEN << [seg |-> s, term |-> FALSE] >>
           ELSE << [seg |-> SubSeq(s, 1, semi - 1), term |-> TRUE] >>
                  \o CssSegments(SubSeq(s, semi + 1, Len(s)))

\* the declaration "name : value" of a segment that has a colon
CssDecl(seg) ==
  LET c == IndexFrom(seg, 1, ":")
  IN  [k |-> Trim(SubSeq(seg, 1, c - 1)), v |-> Trim(SubSeq(seg, c + 1, Len(seg)))]

\* the declarations a CSS reader finds in a style value, in order
CssDecls(s) ==
  LET segs == SelectSeq(CssSegments(s),
                        LAMBDA x : IndexFrom(x.seg, 1, ":") # 0 /\ CssDecl(x.seg).k # << >>)
  IN  [j \in 1..Len(segs) |-> CssDecl(segs[j].seg)]

\* the declarations an author wrote: ';'-terminated name:value pairs with a
\* value, surrounding whitespace aside
AuthorDecls(s) ==
  LET segs == SelectSeq(CssSegments(s),
                        LAMBDA x : /\ x.term
                                   /\ IndexFrom(x.seg, 1, ":") # 0
                                   /\ CssDecl(x.seg).k # << >>
                                   /\ CssDecl(x.seg).v # << >>)
  IN  [j \in 1..Len(segs) |-> CssDecl(segs[j].seg)]

OverrideKeys(tag) == { overrideStyles(tag)[j].k : j \in 1..Len(overrideStyles(tag)) }

\* the step handled one more token
Handled == Len(input') = Len(input) + 1

(***************************************************************************)
(* C1: every start tag and every end tag in the markup cleanTag writes has *)
(* a name in the allowed-tag set (the ignored tags included); a void       *)
(* element outside that set is never written.                              *)
(***************************************************************************)
C1_TagWhitelistClosure ==
  \A j \in 1..Len(OutputTokens) :
    OutputTokens[j].type \in { "start", "end" } => OutputTokens[j].tag \in allowedTags

(***************************************************************************)
(* C2: in every start tag written, every attribute name is in              *)
(* _allowedAttributes and every property of the style value is in          *)
(* _allowedStyles or is an override key of the tag; a style attribute is   *)
(* only written when it holds a declaration.                               *)
(***************************************************************************)
C2_AttributeStyleClosure ==
  \A j \in 1..Len(OutputTokens) :
    LET t == OutputTokens[j]
    IN  t.type = "start" =>
          \A a \in 1..Len(t.attrs) :
            /\ t.attrs[a].k \in allowedAttributes
            /\ t.attrs[a].k = "style" =>
                 /\ ~t.attrs[a].none
                 /\ CssDecls(t.attrs[a].v) # << >>
                 /\ \A d \in 1..Len(CssDecls(t.attrs[a].v)) :
                      LET k == CssDecls(t.attrs[a].v)[d].k
                      IN  \/ Len(k) = 1 /\ k[1] \in allowedStyles
                          \/ k \in OverrideKeys(t.tag)

(***************************************************************************)
(* C3: suppression symmetry.  While the tokens handled so far are properly *)
(* nested (every end tag of a non-void element closes the innermost open   *)
(* element) and no handler has raised, the fragments written are, in input *)
(* order, exactly the tokens that lie outside every disallowed element:    *)
(* nothing from inside a disallowed element is written, and every text,    *)
(* start tag and end tag of an allowed element outside of it is.  The tags *)
(* of html and body are dropped by design, a start tag of a void element   *)
(* is counted as the handler writes it.                                    *)
(***************************************************************************)
Enclosed(open) == \E j \in 1..Len(open) : open[j] \notin allowedTags

RECURSIVE Walk(_, _, _, _)
\* open: the open non-void elements; exp: the tokens expected in the output
Walk(toks, j, open, exp) ==
  IF j > Len(toks) THEN [ok |-> TRUE, open |-> open, exp |-> exp]
  ELSE LET t == toks[j]
       IN  CASE t.type = "data" ->
                  Walk(toks, j + 1, open, IF Enclosed(open) THEN exp ELSE Append(exp, t))
             [] t.type = "start" ->
                  Walk(toks, j + 1,
                       IF t.tag \in voidElements THEN open ELSE Append(open, t.tag),
                       IF /\ ~Enclosed(open)
                          /\ t.tag \notin ignoredTags
                          /\ t.tag \in allowedTags \cup voidElements
                       THEN Append(exp, t) ELSE exp)
             [] t.tag \in voidElements -> Walk(toks, j + 1, open, exp)
             [] OTHER ->
                  IF open = << >> \/ Last(open) # t.tag
                  THEN [ok |-> FALSE, open |-> open, exp |-> exp]
                  ELSE LET up == SubSeq(open, 1, Len(open) - 1)
                       IN  Walk(toks, j + 1, up,
                                IF /\ ~Enclosed(up)
                                   /\ t.tag \in allowedTags \ ignoredTags
                                THEN Append(exp, t) ELSE exp)

\* the fragment frag is token t as written
WrittenAs(t, frag) ==
  CASE t.type = "data" -> frag = t.text
    [] t.type = "end"  -> frag = << "</", t.tag, ">" >>
    [] OTHER           -> /\ Len(frag) >= 3
                          /\ frag[1] = "<" /\ frag[2] = t.tag /\ Last(frag) = ">"

C3_SuppressionSymmetry ==
  LET w == Walk(input, 1, << >>, << >>)
  IN  (parser.raised = "" /\ w.ok) =>
        /\ Len(parser.output) = Len(w.exp)
        /\ \A j \in 1..Len(w.exp) : WrittenAs(w.exp[j], parser.output[j])

\* an allowed element inside a disallowed element inside an allowed element
\* was handled to its end, and content after the disallowed element written
C3_Witness ==
  /\ doc = "NestedSuppress" /\ pass = 1 /\ pc = "returned"
  /\ Walk(input, 1, << >>, << >>).ok
  /\ Len(input) = 12
  /\ Len(parser.output) = 6
  /\ SubSeq(parser.output, 2, 6) = << << "a" >>, << "<", "i", ">" >>, << "y" >>,
                                      << "</", "i", ">" >>, << "</", "div", ">" >> >>

(***************************************************************************)
(* C4: cleanTag never fails: whatever the markup and whatever the outcome  *)
(* of image resolution, no exception leaves cleanTag.                      *)
(***************************************************************************)
C4_NeverFails == pc # "raised"

(***************************************************************************)
(* C5: graceful media failure.  When the handler resolves the src of an    *)
(* img whose URL is unreachable (urlopen raises URLError), it raises       *)
(* exactly one tooltip, for that URL, does not call media.addFile, does    *)
(* not raise, and leaves tagStack, the suppression counter and parseError  *)
(* as a successful resolution would; unless a disallowed element encloses  *)
(* the img, it writes exactly one fragment, an img tag whose src reads as  *)
(* the original URL, and writes nothing otherwise.                         *)
(***************************************************************************)
\* a scenario in which the fetch succeeds with an image
GoodScenario == Scenario(TRUE, << "PNG" >>, "ok", "present", chunk_size, << "PNG" >>, 0, FALSE)

Unreachable(tok) ==
  /\ SrcOf(tok) \in InputUrls
  /\ ~IsFileUrl(SrcOf(tok))
  /\ UrlKind(SrcOf(tok)) = "fetchable"
  /\ net'[SrcOf(tok)].open = "URLError"

C5_Effect(tok) ==
  LET good == handle_starttag(parser, tok.tag, tok.attrs, GoodScenario, FALSE)
  IN  /\ parser'.tooltips = Append(parser.tooltips, SrcOf(tok))
      /\ parser'.mediaFiles = parser.mediaFiles
      /\ parser'.raised = "" /\ pc' = "feed"
      /\ parser'.tagStack = good.tagStack
      /\ parser'.nonAllowedTagCountInStack = good.nonAllowedTagCountInStack
      /\ parser'.parseError = good.parseError
      /\ Len(parser'.output) = Len(good.output)
      /\ IF parser.nonAllowedTagCountInStack = 0
         THEN /\ SubSeq(parser'.output, 1, Len(parser.output)) = parser.output
              /\ Len(parser'.output) = Len(parser.output) + 1
              /\ LET toks == feed(Last(parser'.output))
                 IN  /\ Len(toks) = 1
                     /\ toks[1].type = "start" /\ toks[1].tag = "img"
                     /\ DictHas(toks[1].attrs, "src")
                     /\ DictGet(toks[1].attrs, "src") = Attr("src", SrcOf(tok))
         ELSE parser'.output = parser.output

Undecodable(tok) ==
  /\ SrcOf(tok) \in InputUrls
  /\ LET got == downloadMedia(SrcOf(tok), net'[SrcOf(tok)])
     IN  got.ret = "data" /\ got.data # << >> /\ ~Decodable(got.data)

C6_Effect(tok) ==
  /\ parser'.tooltips = Append(parser.tooltips, SrcOf(tok))
  /\ parser.nonAllowedTagCountInStack = 0 =>
       /\ Len(parser'.output) = Len(parser.output) + 1
       /\ LET toks == feed(Last(parser'.output))
          IN  /\ Len(toks) = 1
              /\ DictHas(toks[1].attrs, "src")
              /\ DictGet(toks[1].attrs, "src") = Attr("src", SrcOf(tok))

C6_DecodeFailureKeepsSrc ==
  [][(Handled /\ Undecodable(Last(input'))) => C6_Effect(Last(input'))]_vars

(***************************************************************************)
(* C7: idempotence: cleanTag applied to the markup it returned returns the *)
(* same markup.                                                            *)
(***************************************************************************)
C7_Idempotent ==
  pass = 2 => /\ pc # "raised"
              /\ pc = "returned" => result = first

(***************************************************************************)
(* C8: the markup returned for any input, malformed or not, is properly    *)
(* nested: every end tag closes the innermost open non-void start tag,     *)
(* every non-void start tag is closed, and every text token that no        *)
(* disallowed element encloses appears exactly once.                       *)
(***************************************************************************)
RECURSIVE OpenAtEnd(_, _, _)
\* the open elements after toks[j..], or << "#" >> after an end tag that
\* does not close the innermost open element
OpenAtEnd(toks, j, open) ==
  IF j > Len(toks) THEN open
  ELSE LET t == toks[j]
       IN  CASE t.type = "start" /\ t.tag \notin voidElements ->
                  OpenAtEnd(toks, j + 1, Append(open, t.tag))
             [] t.type = "end" /\ t.tag \notin voidElements ->
                  IF open # << >> /\ Last(open) = t.tag
                  THEN OpenAtEnd(toks, j + 1, SubSeq(open, 1, Len(open) - 1))
                  ELSE << "#" >>
             [] OTHER -> OpenAtEnd(toks, j + 1, open)

RECURSIVE TextsOutside(_, _, _)
\* the text tokens of toks[j..] that no disallowed element encloses, an end
\* tag closing the nearest open element of its name and all those inside it
TextsOutside(toks, j, open) ==
  IF j > Len(toks) THEN << >>
  ELSE LET t == toks[j]
       IN  CASE t.type = "data" ->
                  (IF Enclosed(open) THEN << >> ELSE << t.text >>)
                    \o TextsOutside(toks, j + 1, open)
             [] t.type = "start" /\ t.tag \notin voidElements ->
                  TextsOutside(toks, j + 1, Append(open, t.tag))
             [] t.type = "end" /\ t.tag \notin voidElements ->
                  LET r == PopUntil(open, t.tag).stack
                  IN  TextsOutside(toks, j + 1,
                                   IF r = << >> THEN r ELSE SubSeq(r, 1, Len(r) - 1))
             [] OTHER -> TextsOutside(toks, j + 1, open)

Count(q, x) == Cardinality({ j \in 1..Len(q) : q[j] = x })

C8_WellFormedOutput ==
  pc = "returned" =>
    /\ OpenAtEnd(feed(result), 1, << >>) = << >>
    /\ LET texts == TextsOutside(input, 1, << >>)
       IN  \A j \in 1..Len(texts) :
             Count(parser.output, texts[j]) = Count(texts, texts[j])

(***************************************************************************)
(* C9: override precedence.  In the style attribute written for a tag that *)
(* has an entry in _overrideStyles, every override property appears        *)
(* exactly once and with the value of the table, and every whitelisted     *)
(* property the author declared that the table does not override is kept   *)
(* with the author's (last) value.                                         *)
(***************************************************************************)
\* the style value the author gave the tag (the last one counts)
AuthorStyle(tok) ==
  LET d == FilterAttrs(tok.attrs, << Attr("style", << >>) >>)
  IN  DictGet(d, "style").v

\* the value of the last declaration of k in decls
LastValue(decls, k) == decls[Max({ j \in 1..Len(decls) : decls[j].k = k })].v

C9_Effect(tok) ==
  LET toks == feed(Last(parser'.output))
      style == IF toks # << >> /\ DictHas(toks[1].attrs, "style")
               THEN DictGet(toks[1].attrs, "style").v ELSE << >>
      written == CssDecls(style)
      author == AuthorDecls(AuthorStyle(tok))
  IN  /\ \A o \in 1..Len(overrideStyles(tok.tag)) :
           /\ Cardinality({ j \in 1..Len(written) :
                              written[j].k = overrideStyles(tok.tag)[o].k }) = 1
           /\ \A j \in 1..Len(written) :
                written[j].k = overrideStyles(tok.tag)[o].k
                  => written[j].v = overrideStyles(tok.tag)[o].v
      /\ \A a \in 1..Len(author) :
           (StyleAllowed(author[a].k) /\ author[a].k \notin OverrideKeys(tok.tag))
             => \E j \in 1..Len(written) :
                  /\ written[j].k = author[a].k
                  /\ written[j].v = LastValue(author, author[a].k)

C9_OverridePrecedence ==
  [][(/\ Handled
      /\ Last(input').type = "start"
      /\ Last(input').tag \in overrideTags
      /\ Len(parser'.output) = Len(parser.output) + 1)
     => C9_Effect(Last(input'))]_vars

(***************************************************************************)
(* C10: the end-to-end example.  As claimed: the markup                    *)
(*   <div onclick="evil()"><p style="color:red;unknown:1">Hi               *)
(*   <script>bad()</script>there</p></div>                                 *)
(* is returned as <div><p style="color:red;">Hi there</p></div>.           *)
(***************************************************************************)
C10_EndToEndAsClaimed ==
  (doc = "EndToEnd" /\ pass = 1 /\ pc = "returned") =>
    result = << "<", "div", ">",
                "<", "p", " ", "style", "=", "\"", "color", ":", "red", ";", "\"", ">",
                "Hi ", "there", "</", "p", ">", "</", "div", ">" >>

(***************************************************************************)
(* C10, amended: the example is returned as                                *)
(*   <div style="padding:.2em;"><p style="color:red;">Hi there</p></div>   *)
(* the div loses onclick and carries the padding of the override table,    *)
(* the p keeps only color:red, and the script subtree is dropped.          *)
(***************************************************************************)
C10_EndToEnd ==
  (doc = "EndToEnd" /\ pass = 1 /\ pc = "returned") =>
    result = << "<", "div", " ", "style", "=", "\"", "padding", ":", ".2em", ";", "\"", ">",
                "<", "p", " ", "style", "=", "\"", "color", ":", "red", ";", "\"", ">",
                "Hi ", "there", "</", "p", ">", "</", "div", ">" >>

\* the example was filtered to its end
C10_Witness ==
  /\ doc = "EndToEnd" /\ pass = 1 /\ pc = "returned"
  /\ Len(input) = 9 /\ rest = << >>
  /\ parser.tagStack = << >> /\ parser.nonAllowedTagCountInStack = 0

(***************************************************************************)
(* C11.  When the local file behind a file:// reference cannot be read,    *)
(* downloadMedia reports a failure for that image (the reference is kept   *)
(* and a tooltip names it) without attempting a network fetch of the path, *)
(* and the sanitization goes on: no exception leaves the image step.       *)
(***************************************************************************)
LocalReadFailed == IsFileUrl(fetch.src) /\ ~fetch.sc.fileOk

C11_LocalFailureClean ==
  (fetch.pc = "done" /\ LocalReadFailed) =>
     /\ fetch.opened = << >>
     /\ fetch.ret = ReturnedNone
     /\ fetch.tooltips = << fetch.src >>
     /\ fetch.newSrc = fetch.src

(***************************************************************************)
(* C12.  A request to cancel that arrives during the chunk loop is         *)
(* observed at the next chunk boundary: no further chunk is read, the      *)
(* fetch is abandoned and reported as a network failure (None), and the    *)
(* asset store is not called for that image.                               *)
(***************************************************************************)
C12_CancelObserved ==
  /\ ~(fetch.pc = "title" /\ fetch.cancel)
  /\ (fetch.pc = "done" /\ fetch.cancel) =>
       /\ fetch.ret = ReturnedNone
       /\ fetch.stored = << >>

(***************************************************************************)
(* C13.  When a remote fetch ends in a failure after zero or more chunks   *)
(* were read, the chunks are discarded (downloadMedia hands no bytes on)   *)
(* and media.addFile is not called; addFile is only ever given the bytes   *)
(* of a fetch that reached end-of-stream or of a complete local read.      *)
(***************************************************************************)
FetchFailed == fetch.shown > 0 /\ ~fetch.eos

C13_NoPartialAsset ==
  fetch.pc = "done" =>
    /\ FetchFailed => fetch.ret.data = << >> /\ fetch.stored = << >>
    /\ \A j \in 1..Len(fetch.stored) :
         \/ /\ fetch.shown = 0
            /\ fetch.sc.fileOk
            /\ fetch.stored[j].bytes = ReEncoded(fetch.sc.content, fetch.sc.png)
         \/ /\ fetch.eos
            /\ fetch.stored[j].bytes = ReEncoded(fetch.sc.chunks, fetch.sc.png)

\* a read failed after a chunk had been appended, and nothing was stored
C13_Witness ==
  /\ fetch.pc = "done"
  /\ fetch.chunks # << >>
  /\ FetchFailed
  /\ fetch.sc.failAt = fetch.reads + 1
  /\ fetch.stored = << >>

(***************************************************************************)
(* C14.  Two image references whose re-encoded bytes are identical give    *)
(* the asset store the same content-derived key on both calls and get the  *)
(* same asset handle back.                                                 *)
(***************************************************************************)
C14_DedupStorage ==
  \A i, j \in 1..Len(parser.mediaFiles) :
    parser.mediaFiles[i].bytes = parser.mediaFiles[j].bytes =>
      /\ parser.mediaFiles[i].path = parser.mediaFiles[j].path
      /\ parser.mediaFiles[i].name = parser.mediaFiles[j].name

(***************************************************************************)
(* C15.  Every progress value computed after a chunk has                   *)
(* 0 <= bytesRead <= totalBytes, that is a fraction within [0, 1];         *)
(* bytesRead is the sum of the lengths of the chunks read so far and never *)
(* decreases, whatever length is declared and whatever chunks arrive.      *)
(***************************************************************************)
C15_ProgressBounded ==
  fetch.pc # "idle" =>
    \A j \in 1..Len(fetch.titles) :
         /\ 0 <= fetch.titles[j].read
         /\ fetch.titles[j].read <= fetch.titles[j].total
         /\ fetch.titles[j].read = SumSizes(SubSeq(fetch.sc.chunks, 1, j))
         /\ j > 1 => fetch.titles[j - 1].read <= fetch.titles[j].read

(***************************************************************************)
(* C16.  In every reachable state nonAllowedTagCountInStack is not         *)
(* negative and equals the number of entries of tagStack that are not      *)
(* allowed tags, so that suppression never outlasts the disallowed         *)
(* elements that enclose the position.                                     *)
(***************************************************************************)
DisallowedOnStack ==
  Cardinality({ j \in 1..Len(parser.tagStack) : parser.tagStack[j] \notin allowedTags })

C16_CounterInvariant ==
  /\ parser.nonAllowedTagCountInStack >= 0
  /\ parser.nonAllowedTagCountInStack = DisallowedOnStack

(***************************************************************************)
(* C17.  When the response of a remote fetch carries no length header, no  *)
(* progress value is computed, yet the chunks are read to end-of-stream    *)
(* and their concatenation, in the order of arrival, is returned as the    *)
(* image bytes.                                                            *)
(***************************************************************************)
NoLengthHeader ==
  /\ UrlKind(fetch.url) = "fetchable"
  /\ fetch.sc.open = "ok"
  /\ fetch.sc.length = "absent"

C17_FetchWithoutLength ==
  (fetch.pc = "done" /\ NoLengthHeader) =>
     /\ fetch.titles = << >>
     /\ fetch.eos
     /\ fetch.ret = Returned(fetch.sc.chunks)

(***************************************************************************)
(* C18.  Tokens are handled in the order of the input and, for every img   *)
(* start tag that carries a src attribute, downloadMedia is called exactly *)
(* once, with the src value, and has completed (with bytes, with None or   *)
(* with an exception) before the img tag is written and before the next    *)
(* token is handled; the call, and the addFile call that follows bytes     *)
(* that decode, happen whatever the suppression counter is.                *)
(***************************************************************************)
CarriesSrc(tok) ==
  /\ tok.type = "start" /\ tok.tag = "img"
  /\ \E j \in 1..Len(tok.attrs) : tok.attrs[j].k = "src"

C18_Effect(tok) ==
  LET src == DictGet(FilterAttrs(tok.attrs, << >>), "src")
      sc == IF src.v \in InputUrls THEN net'[src.v] ELSE NoScenario
      got == IF src.none THEN Raised("AttributeError") ELSE downloadMedia(src.v, sc)
  IN  /\ parser'.downloads = Append(parser.downloads, src)
      /\ got.ret = "raise" => parser'.raised = got.exc /\ parser'.output = parser.output
      /\ Len(parser'.mediaFiles) =
           Len(parser.mediaFiles) + (IF got.ret = "data" /\ Decodable(got.data) THEN 1 ELSE 0)
      /\ parser'.nonAllowedTagCountInStack > 0 => parser'.output = parser.output

InLoop(f) == f.pc \in { "read", "title", "events" }

\* the step leaves the loop
LeavesLoop == InLoop(fetch) /\ ~InLoop(fetch')

LocalReadDone(f) == IsFileUrl(f.src) /\ f.sc.fileOk

C19_Step ==
  /\ LeavesLoop <=>
       \/ fetch.pc = "read" /\ fetch'.eos /\ fetch'.chunk = << >>
       \/ InLoop(fetch) /\ fetch'.pending.ret = "raise"
  /\ fetch'.closed <= fetch'.shown
  /\ fetch'.pc \in { "returned", "done" } =>
       IF LocalReadDone(fetch')
       THEN fetch'.shown = 0 /\ fetch'.closed = 0 /\ fetch'.ret = Returned(fetch'.sc.content)
       ELSE fetch'.shown = 1 /\ fetch'.closed = 1

C19_LoopExitAndDialog == [][fetch'.pc # "idle" => C19_Step]_vars

\* an exception left the loop after a chunk and the dialog was closed once
C19_Witness ==
  /\ fetch.pc = "returned"
  /\ fetch.ret.ret = "raise"
  /\ fetch.chunks # << >>
  /\ fetch.shown = 1 /\ fetch.closed = 1

(***************************************************************************)
(* C20.  When the clipboard holds HTML, onHtmlCopy makes exactly one       *)
(* clipboard update and one paste: of the markup cleanTag returned when it *)
(* returns, and of the clipboard's own, unsanitized markup when cleanTag   *)
(* raises any exception.  When the clipboard holds no HTML nothing is      *)
(* pasted and the clipboard is left as it is.                              *)
(***************************************************************************)
C20_Step ==
  /\ pc' # "done" => pastes' = << >> /\ clipboard' = << >>
  /\ (pc' = "done" /\ pc = "called") => pastes' = << >> /\ clipboard' = << >>
  /\ (pc' = "done" /\ pc = "returned") =>
       /\ pastes' = << cleanTagResult(parser) >>
       /\ clipboard' = pastes'
  /\ (pc' = "done" /\ pc = "raised") =>
       /\ Len(pastes') = 1
       /\ IF doc = "again" THEN pastes'[1] = first
          ELSE feed(pastes'[1]) = input \o rest
       /\ clipboard' = pastes'

C20_PasteFallback == [][C20_Step]_vars

\* cleanTag raised on the attribute without value and the markup was pasted
\* as it came
C20_Witness ==
  /\ pc = "done"
  /\ doc = "BareHref"
  /\ parser.raised = "AttributeError"
  /\ pastes = << << "<", "a", " ", "href", ">", "y", "</", "a", ">" >> >>
  /\ clipboard = pastes

====
